---------------------------- MODULE Spec2Model ----------------------------
(***************************************************************************)
(* radio_6_to_spotify: the batch job that scrapes the BBC Radio 6 Music    *)
(* playlist page, resolves every mention to a Spotify track and reconciles *)
(* one Spotify playlist against the result.                                *)
(*                                                                         *)
(* Strings are sequences of characters; a character is a one-element       *)
(* string that names it, and Code gives its code point.  A literal that    *)
(* the code only ever handles whole ("artist:", "Last updated: ", a        *)
(* formatted timestamp) is one element of such a sequence.                 *)
(***************************************************************************)
EXTENDS Integers, Sequences, FiniteSets, TLC

VARIABLES
    pc,                 \* position of handler(): the statement it executes next
    run,                \* number of the current invocation of handler()
    prev_ok,            \* the previous invocation ran to its last statement
    now,                \* time.time(), seconds
    ticks,              \* number of clock advances so far (bounded)
    access_token,       \* Spotify.access_token
    token_ts,           \* Spotify.token_ts
    remote_tracks,      \* the playlist's tracks as Spotify holds them
    remote_description, \* the playlist's description as Spotify holds it
    page,               \* the mentions the BBC page lists
    search_results,     \* what Spotify's search returns for each query
    spotify_playlist,   \* handler's spotify_playlist (None before it is read)
    spotify_tracks,     \* handler's spotify_tracks
    mentions,           \* handler's scraped_tracks as returned by the scraper
    idx,                \* loop index of get_scraped_tracks_from_spotify
    first_results,      \* get_track_from_spotify's tracks after the verbatim search
    scraped_tracks,     \* the resolved tracks accumulated so far
    tracks_to_add,      \* handler's tracks_to_add
    tracks_to_remove,   \* handler's tracks_to_remove
    api_log             \* every HTTP request sent to Spotify, in order

vars == <<pc, run, prev_ok, now, ticks, access_token, token_ts, remote_tracks,
          remote_description, page, search_results, spotify_playlist,
          spotify_tracks, mentions, idx, first_results, scraped_tracks,
          tracks_to_add, tracks_to_remove, api_log>>

None == "None"

\* Spotify.token_ts is None, or <<t>> for the float t
NoTimestamp == <<>>

-----------------------------------------------------------------------------
(* Bounds of the model *)

MaxMentions == 2        \* mentions on the page
MaxPlaylist == 2        \* tracks in the playlist before the first run
MaxRuns == 2            \* invocations of handler()
MaxTicks == 1           \* clock advances in a behaviour
MaxArtistLen == 2       \* characters of a mention's artist (resolver runs)
MaxTrackLen == 1        \* characters of a mention's track name (resolver runs)
MaxDescLen == 3         \* elements of a playlist description
MaxCalls == 3           \* client calls in a behaviour of the token runs

-----------------------------------------------------------------------------
(* Sequences *)

SeqsUpTo(S, n) == UNION {[1..k -> S] : k \in 0..n}

Range(s) == {s[i] : i \in 1..Len(s)}


-----------------------------------------------------------------------------
(* Characters.  "e_acute" names the letter U+00E9. *)

Code ==
    "a" :> 97 @@ "1" :> 49 @@ "2" :> 50 @@ "3" :> 51 @@ "_" :> 95 @@ " " :> 32
    @@ "+" :> 43 @@ "," :> 44 @@ "-" :> 45 @@ "." :> 46 @@ "'" :> 39
    @@ "e_acute" :> 233

\* Code points above 127 that Python's str patterns count as \w.
UnicodeWordCodes == {233}

\* \w of a str pattern: [a-zA-Z0-9_] and every other Unicode letter or digit.
IsWordChar(c) ==
    Code[c] \in (48..57) \cup (65..90) \cup (97..122) \cup {95} \cup UnicodeWordCodes

\* One character against the class [^ \w+-.]: inside the brackets "+-." is the
\* range from "+" to ".", which the negation excludes as a whole.
MatchesOddCharClass(c) ==
    ~ (c = " " \/ IsWordChar(c) \/ (Code["+"] <= Code[c] /\ Code[c] <= Code["."]))

has_odd_chars(string) == \E i \in 1..Len(string) : MatchesOddCharClass(string[i])

remove_odd_chars(string) == SelectSeq(string, LAMBDA c : ~ MatchesOddCharClass(c))

\* f"artist:{artist} track:{track_name}"
SearchQuery(artist, track_name) == <<"artist:">> \o artist \o <<" track:">> \o track_name

-----------------------------------------------------------------------------
(* The catalog *)

ArtistA == [name |-> "Artist A", uri |-> "spotify:artist:A", id |-> "A"]
ArtistB == [name |-> "Artist B", uri |-> "spotify:artist:B", id |-> "B"]

\* TrackModel; the album is read by nothing.
TrackModel(id, name, artists, popularity) ==
    [id |-> id, uri |-> <<"spotify:track:">> \o id, name |-> name,
     artists |-> artists, popularity |-> popularity]

\* T1 and T2 are one recording on two albums: two ids, one name, the same artists.
T1 == TrackModel(<<"1">>, "Song X", <<ArtistA>>, 5)
T2 == TrackModel(<<"2">>, "Song X", <<ArtistA>>, 5)
T3 == TrackModel(<<"3">>, "Song Y", <<ArtistB>>, 7)
T4 == TrackModel(<<"1", "2">>, "Song X", <<ArtistB>>, 5)

Catalog == {T1, T2, T3, T4}

\* sorted(tracks, key=lambda x: x.popularity, reverse=True): a stable sort, which
\* with reverse=True still keeps equal keys in their original order.
RECURSIVE InsertByPopularity(_, _)
InsertByPopularity(t, sorted) ==
    IF sorted = <<>> THEN <<t>>
    ELSE IF Head(sorted).popularity >= t.popularity
         THEN <<Head(sorted)>> \o InsertByPopularity(t, Tail(sorted))
         ELSE <<t>> \o sorted

RECURSIVE SortedByPopularity(_)
SortedByPopularity(tracks) ==
    IF tracks = <<>> THEN <<>>
    ELSE InsertByPopularity(tracks[Len(tracks)],
                            SortedByPopularity(SubSeq(tracks, 1, Len(tracks) - 1)))

\* The tail of get_track_from_spotify: the list holding the chosen track, or the
\* empty list for None.
ChosenTrack(tracks) ==
    IF tracks # <<>> THEN <<SortedByPopularity(tracks)[1]>> ELSE <<>>

-----------------------------------------------------------------------------
(* Reconciliation *)

is_track_in_tracks_by_id(track, tracks) ==
    \E i \in 1..Len(tracks) : track.id = tracks[i].id

is_track_in_tracks(track, tracks) ==
    \E i \in 1..Len(tracks) :
        LET track_to_check == tracks[i]
            id_match == track.id = track_to_check.id
            name_and_artist_match ==
                track.name = track_to_check.name /\ track.artists = track_to_check.artists
        IN  id_match \/ name_and_artist_match

\* The reconciler with the removal list left empty.
get_tracks_to_add_only(spotify_tracks_, scraped_tracks_) ==
    << SelectSeq(scraped_tracks_, LAMBDA t : ~ is_track_in_tracks(t, spotify_tracks_)),
       <<>> >>

\* The reconciler with the membership test of the second loop left out.
get_tracks_to_add_unchecked(spotify_tracks_, scraped_tracks_) ==
    << scraped_tracks_,
       SelectSeq(spotify_tracks_, LAMBDA t : ~ is_track_in_tracks(t, scraped_tracks_)) >>

\* The reconciler returning its two lists in the other order.
get_tracks_to_remove_and_add(spotify_tracks_, scraped_tracks_) ==
    << SelectSeq(spotify_tracks_, LAMBDA t : ~ is_track_in_tracks(t, scraped_tracks_)),
       SelectSeq(scraped_tracks_, LAMBDA t : ~ is_track_in_tracks(t, spotify_tracks_)) >>

\* <<tracks_to_add, tracks_to_remove>>
get_tracks_to_add_and_remove_from_playlist(spotify_tracks_, scraped_tracks_) ==
    << SelectSeq(scraped_tracks_, LAMBDA t : ~ is_track_in_tracks(t, spotify_tracks_)),
       SelectSeq(spotify_tracks_, LAMBDA t : ~ is_track_in_tracks(t, scraped_tracks_)) >>

-----------------------------------------------------------------------------
(* The playlist description *)

LastUpdated == "Last updated: "

\* datetime.now(...).strftime("%d-%m-%Y %H:%M:%S (%Z)") at time t
Timestamp(t) == "ts" \o ToString(t)

\* description.split("Last updated: ")
RECURSIVE SplitOnLastUpdated(_)
SplitOnLastUpdated(description) ==
    IF \A i \in 1..Len(description) : description[i] # LastUpdated
    THEN <<description>>
    ELSE LET k == CHOOSE i \in 1..Len(description) :
                      /\ description[i] = LastUpdated
                      /\ \A j \in 1..(i - 1) : description[j] # LastUpdated
         IN  <<SubSeq(description, 1, k - 1)>>
             \o SplitOnLastUpdated(SubSeq(description, k + 1, Len(description)))

\* "Last updated: ".join(segments)
RECURSIVE JoinWithLastUpdated(_)
JoinWithLastUpdated(segments) ==
    IF segments = <<>> THEN <<>>
    ELSE IF Len(segments) = 1 THEN segments[1]
    ELSE segments[1] \o <<LastUpdated>> \o JoinWithLastUpdated(Tail(segments))

get_updated_playlist_description(description, t) ==
    LET ts == Timestamp(t)
        segments == SplitOnLastUpdated(description)
        description_without_date ==
            JoinWithLastUpdated(SubSeq(segments, 1, Len(segments) - 1))
    IN  description_without_date \o <<" ", LastUpdated, ts>>

-----------------------------------------------------------------------------
(* The Spotify client: the bearer token *)

access_token_timeout == 3600
RefreshMargin == 300

\* content["access_token"] of the token endpoint's answer
NewAccessToken == "access_token"

\* check_access_token's two branches that call get_new_access_token
NeedsNewToken ==
    IF token_ts = NoTimestamp THEN TRUE
    ELSE now > token_ts[1] + access_token_timeout - RefreshMargin

\* One request as api_log records it.  token is the bearer token of the
\* Authorization header and age the token's age when check_access_token ran.
ApiRequest(op, arg, ok, token, age) ==
    [op |-> op, arg |-> arg, ok |-> ok, token |-> token, age |-> age]

\* get_new_access_token's POST to the accounts service; it carries no bearer token.
TokenRequest(ok) == ApiRequest("token", <<>>, ok, None, 0)

\* A decorated client method whose token check passes or fetches a token: the
\* wrapper, then the method's request, which succeeds (ok) or raises.
\* search_for_track_by_artist_and_track_name runs the wrapper a second time around
\* search(), at the same instant and so to the same outcome.
SendAuthenticated(op, arg, ok) ==
    /\ access_token' = IF NeedsNewToken THEN NewAccessToken ELSE access_token
    /\ token_ts' = IF NeedsNewToken THEN <<now>> ELSE token_ts
    /\ api_log' = api_log
                  \o (IF NeedsNewToken THEN <<TokenRequest(TRUE)>> ELSE <<>>)
                  \o <<ApiRequest(op, arg, ok, access_token', now - token_ts'[1])>>

\* The wrapper's get_new_access_token raises: api_call's raise_for_status or the
\* request's timeout.  The decorated method is never entered.
TokenFetchRaises ==
    /\ NeedsNewToken
    /\ api_log' = api_log \o <<TokenRequest(FALSE)>>
    /\ UNCHANGED <<access_token, token_ts>>

\* Time passes before a statement that reads the clock.
Delays == {3301}

ClockStatements ==
    {"get_playlist", "search", "fallback", "add", "remove", "describe", "client"}

Tick ==
    /\ ticks < MaxTicks
    /\ pc \in ClockStatements
    /\ \E dt \in Delays : now' = now + dt
    /\ ticks' = ticks + 1
    /\ UNCHANGED <<pc, run, prev_ok, access_token, token_ts, remote_tracks,
                   remote_description, page, search_results, spotify_playlist,
                   spotify_tracks, mentions, idx, first_results, scraped_tracks,
                   tracks_to_add, tracks_to_remove, api_log>>

-----------------------------------------------------------------------------
(* handler() *)

\* Spotify resolves a track URI of an add request.
TrackOfUri(uri) == CHOOSE t \in Catalog : t.uri = uri

UrisOf(tracks) == [i \in 1..Len(tracks) |-> tracks[i].uri]

\* handler() without its "if tracks_to_add:".
AfterReconcileUnguarded(to_add, to_remove) == "add"

\* handler() with its removal block first: the removal's successor is the
\* description update, so the additions are passed over.
AfterReconcileRemovalFirst(to_add, to_remove) ==
    IF to_remove # <<>> THEN "remove"
    ELSE IF to_add # <<>> THEN "add"
    ELSE "describe"

\* The statement after the reconciliation, given the two lists.
AfterReconcile(to_add, to_remove) ==
    IF to_add # <<>> THEN "add"
    ELSE IF to_remove # <<>> THEN "remove"
    ELSE "describe"

\* The request the statement at pc sends.
CurrentRequest ==
    CASE pc = "get_playlist" -> [op |-> "get_playlist", arg |-> <<>>]
      [] pc = "search" ->
            [op |-> "search",
             arg |-> SearchQuery(mentions[idx].artist, mentions[idx].track)]
      [] pc = "fallback" ->
            [op |-> "search",
             arg |-> SearchQuery(remove_odd_chars(mentions[idx].artist),
                                 remove_odd_chars(mentions[idx].track))]
      [] pc = "add" -> [op |-> "add_to_playlist", arg |-> UrisOf(tracks_to_add)]
      [] pc = "remove" ->
            [op |-> "remove_from_playlist", arg |-> UrisOf(tracks_to_remove)]
      [] pc = "describe" ->
            [op |-> "change_playlist_details",
             arg |-> get_updated_playlist_description(spotify_playlist.description, now)]

ApiStatements == {"get_playlist", "search", "fallback", "add", "remove", "describe"}

\* spotify.get_playlist(...) and the list comprehension after it
GetPlaylist ==
    /\ pc = "get_playlist"
    /\ SendAuthenticated("get_playlist", <<>>, TRUE)
    /\ spotify_playlist' = [description |-> remote_description, tracks |-> remote_tracks]
    /\ spotify_tracks' = remote_tracks
    /\ pc' = "scrape"
    /\ UNCHANGED <<run, prev_ok, now, ticks, remote_tracks, remote_description, page,
                   search_results, mentions, idx, first_results, scraped_tracks,
                   tracks_to_add, tracks_to_remove>>

\* scrape_radio_6_playlist_tracks(), then the entry of get_scraped_tracks_from_spotify
ScrapePage ==
    /\ pc = "scrape"
    /\ mentions' = page
    /\ idx' = 1
    /\ scraped_tracks' = <<>>
    /\ pc' = IF page = <<>> THEN "reconcile" ELSE "search"
    /\ UNCHANGED <<run, prev_ok, now, ticks, access_token, token_ts, remote_tracks,
                   remote_description, page, search_results, spotify_playlist,
                   spotify_tracks, first_results, tracks_to_add, tracks_to_remove,
                   api_log>>

\* requests.get of the page raises
ScrapePageRaises ==
    /\ pc = "scrape"
    /\ pc' = "aborted"
    /\ UNCHANGED <<run, prev_ok, now, ticks, access_token, token_ts, remote_tracks,
                   remote_description, page, search_results, spotify_playlist,
                   spotify_tracks, mentions, idx, first_results, scraped_tracks,
                   tracks_to_add, tracks_to_remove, api_log>>

\* get_track_from_spotify raising on a miss instead of returning None.
FinishMentionRaisingOnMiss(tracks) ==
    IF tracks = <<>>
    THEN pc' = "aborted" /\ UNCHANGED <<scraped_tracks, idx>>
    ELSE /\ scraped_tracks' = scraped_tracks \o ChosenTrack(tracks)
         /\ idx' = idx + 1
         /\ pc' = IF idx < Len(mentions) THEN "search" ELSE "reconcile"

\* The end of get_track_from_spotify and of the loop body that called it: the
\* chosen track, if any, is appended and the loop moves on.
FinishMention(tracks) ==
    /\ scraped_tracks' = scraped_tracks \o ChosenTrack(tracks)
    /\ idx' = idx + 1
    /\ pc' = IF idx < Len(mentions) THEN "search" ELSE "reconcile"

\* get_track_from_spotify up to its first if: the verbatim search
SearchVerbatim ==
    /\ pc = "search"
    /\ LET scraped_track == mentions[idx]
           query == SearchQuery(scraped_track.artist, scraped_track.track)
           tracks == search_results[query]
       IN  /\ SendAuthenticated("search", query, TRUE)
           /\ first_results' = tracks
           /\ IF tracks = <<>> /\ (has_odd_chars(scraped_track.artist)
                                   \/ has_odd_chars(scraped_track.track))
              THEN pc' = "fallback" /\ UNCHANGED <<scraped_tracks, idx>>
              ELSE FinishMention(tracks)
    /\ UNCHANGED <<run, prev_ok, now, ticks, remote_tracks, remote_description, page,
                   search_results, spotify_playlist, spotify_tracks, mentions,
                   tracks_to_add, tracks_to_remove>>

\* get_scraped_track_alphanumeric
SearchFallback ==
    /\ pc = "fallback"
    /\ LET scraped_track == mentions[idx]
           artist_alphanumeric == remove_odd_chars(scraped_track.artist)
           track_name_alphanumeric == remove_odd_chars(scraped_track.track)
           query == SearchQuery(artist_alphanumeric, track_name_alphanumeric)
       IN  /\ SendAuthenticated("search", query, TRUE)
           /\ FinishMention(search_results[query])
    /\ UNCHANGED <<run, prev_ok, now, ticks, remote_tracks, remote_description, page,
                   search_results, spotify_playlist, spotify_tracks, mentions,
                   first_results, tracks_to_add, tracks_to_remove>>

\* get_tracks_to_add_and_remove_from_playlist(...) and the ifs that follow it
Reconcile ==
    /\ pc = "reconcile"
    /\ LET res == get_tracks_to_add_and_remove_from_playlist(spotify_tracks,
                                                             scraped_tracks)
       IN  /\ tracks_to_add' = res[1]
           /\ tracks_to_remove' = res[2]
           /\ pc' = AfterReconcile(res[1], res[2])
    /\ UNCHANGED <<run, prev_ok, now, ticks, access_token, token_ts, remote_tracks,
                   remote_description, page, search_results, spotify_playlist,
                   spotify_tracks, mentions, idx, first_results, scraped_tracks,
                   api_log>>

\* spotify.add_to_playlist(...): Spotify appends the tracks of the URIs
AddToPlaylist ==
    /\ pc = "add"
    /\ LET uris_to_add == UrisOf(tracks_to_add)
       IN  /\ SendAuthenticated("add_to_playlist", uris_to_add, TRUE)
           /\ remote_tracks' =
                  remote_tracks
                  \o [i \in 1..Len(uris_to_add) |-> TrackOfUri(uris_to_add[i])]
    /\ pc' = IF tracks_to_remove # <<>> THEN "remove" ELSE "describe"
    /\ UNCHANGED <<run, prev_ok, now, ticks, remote_description, page, search_results,
                   spotify_playlist, spotify_tracks, mentions, idx, first_results,
                   scraped_tracks, tracks_to_add, tracks_to_remove>>

\* spotify.remove_from_playlist(...): Spotify drops every occurrence of each URI
RemoveFromPlaylist ==
    /\ pc = "remove"
    /\ LET uris_to_remove == UrisOf(tracks_to_remove)
       IN  /\ SendAuthenticated("remove_from_playlist", uris_to_remove, TRUE)
           /\ remote_tracks' =
                  SelectSeq(remote_tracks, LAMBDA t : t.uri \notin Range(uris_to_remove))
    /\ pc' = "describe"
    /\ UNCHANGED <<run, prev_ok, now, ticks, remote_description, page, search_results,
                   spotify_playlist, spotify_tracks, mentions, idx, first_results,
                   scraped_tracks, tracks_to_add, tracks_to_remove>>

\* get_updated_playlist_description(...) and spotify.change_playlist_details(...)
ChangePlaylistDetails ==
    /\ pc = "describe"
    /\ LET updated_description ==
               get_updated_playlist_description(spotify_playlist.description, now)
       IN  /\ SendAuthenticated("change_playlist_details", updated_description, TRUE)
           /\ remote_description' = updated_description
    /\ pc' = "done"
    /\ UNCHANGED <<run, prev_ok, now, ticks, remote_tracks, page, search_results,
                   spotify_playlist, spotify_tracks, mentions, idx, first_results,
                   scraped_tracks, tracks_to_add, tracks_to_remove>>

\* A retry loop around the failing call: the statement is executed again.
ApiCallRetried ==
    /\ pc \in ApiStatements
    /\ \/ TokenFetchRaises
       \/ SendAuthenticated(CurrentRequest.op, CurrentRequest.arg, FALSE)
    /\ UNCHANGED <<pc, run, prev_ok, now, ticks, remote_tracks, remote_description,
                   page, search_results, spotify_playlist, spotify_tracks, mentions,
                   idx, first_results, scraped_tracks, tracks_to_add,
                   tracks_to_remove>>

\* A client call of handler() raises, in the wrapper's token fetch or in the
\* method's own api_call; nothing in handler() catches it.
ApiCallRaises ==
    /\ pc \in ApiStatements
    /\ \/ TokenFetchRaises
       \/ SendAuthenticated(CurrentRequest.op, CurrentRequest.arg, FALSE)
    /\ pc' = "aborted"
    /\ UNCHANGED <<run, prev_ok, now, ticks, remote_tracks, remote_description, page,
                   search_results, spotify_playlist, spotify_tracks, mentions, idx,
                   first_results, scraped_tracks, tracks_to_add, tracks_to_remove>>

\* The job is invoked again: a new process, a new Spotify object, the same page
\* and the same catalog.
InvokeAgain ==
    /\ pc \in {"done", "aborted"}
    /\ run < MaxRuns
    /\ run' = run + 1
    /\ prev_ok' = (pc = "done")
    /\ pc' = "get_playlist"
    /\ access_token' = None
    /\ token_ts' = NoTimestamp
    /\ spotify_playlist' = None
    /\ spotify_tracks' = <<>>
    /\ mentions' = <<>>
    /\ idx' = 0
    /\ first_results' = <<>>
    /\ scraped_tracks' = <<>>
    /\ tracks_to_add' = <<>>
    /\ tracks_to_remove' = <<>>
    /\ api_log' = <<>>
    /\ UNCHANGED <<now, ticks, remote_tracks, remote_description, page, search_results>>

-----------------------------------------------------------------------------
(* The job: one playlist, one page, one catalog, handler() invoked MaxRuns times *)

\* ScrapedTrack(artist, track)
ScrapedTrack(artist, track) == [artist |-> artist, track |-> track]

\* The mentions a page of the job runs may list: a plain one, and one whose
\* artist holds an apostrophe.
Mentions ==
    { ScrapedTrack(<<"a">>, <<"a">>),
      ScrapedTrack(<<"a", "'">>, <<"a">>) }

QueriesOf(ms) ==
    {SearchQuery(m.artist, m.track) : m \in ms}
    \cup {SearchQuery(remove_odd_chars(m.artist), remove_odd_chars(m.track)) : m \in ms}

\* What a search of the job runs may return.
ResultLists == {<<>>, <<T1>>, <<T2, T3>>}

Descriptions == {<<"Radio 6.", " ", LastUpdated, "ts0">>}

\* The tracks the playlist may hold before the first run.
PlaylistTracks == {T2, T3}

\* The handler's locals before its first statement, with a Spotify object
\* constructed as handler() constructs it: no token, no timestamp.
HandlerEntry ==
    /\ pc = "get_playlist"
    /\ access_token = None
    /\ token_ts = NoTimestamp
    /\ spotify_playlist = None
    /\ spotify_tracks = <<>>
    /\ mentions = <<>>
    /\ idx = 0
    /\ first_results = <<>>
    /\ scraped_tracks = <<>>
    /\ tracks_to_add = <<>>
    /\ tracks_to_remove = <<>>
    /\ api_log = <<>>

Init ==
    /\ HandlerEntry
    /\ run = 1
    /\ prev_ok = FALSE
    /\ now = 0
    /\ ticks = 0
    /\ remote_tracks \in SeqsUpTo(PlaylistTracks, MaxPlaylist)
    /\ remote_description \in Descriptions
    /\ page \in SeqsUpTo(Mentions, MaxMentions)
    /\ search_results \in [QueriesOf(Mentions) -> ResultLists]

Next ==
    \/ Tick
    \/ GetPlaylist
    \/ ScrapePage
    \/ ScrapePageRaises
    \/ SearchVerbatim
    \/ SearchFallback
    \/ Reconcile
    \/ AddToPlaylist
    \/ RemoveFromPlaylist
    \/ ChangePlaylistDetails
    \/ ApiCallRaises
    \/ InvokeAgain

Spec == Init /\ [][Next]_vars

-----------------------------------------------------------------------------
(* The resolver alone: handler() has read an empty playlist and scraped a page *)
(* of one mention, whose artist and track name are any strings over            *)
(* ResolveAlphabet, and enters get_scraped_tracks_from_spotify.                *)

ResolveAlphabet == {"a", " ", "+", ",", "-", ".", "'", "e_acute"}

\* What a search of the resolver runs may return: nothing, a tie on popularity
\* in both orders, and two popularities.
ResolveResultLists == {<<>>, <<T1, T2>>, <<T2, T1>>, <<T1, T3>>}

\* The state handler() is in after a successful get_playlist at time 0.
AfterGetPlaylist(description, tracks) ==
    /\ access_token = NewAccessToken
    /\ token_ts = <<0>>
    /\ api_log = <<TokenRequest(TRUE),
                   ApiRequest("get_playlist", <<>>, TRUE, NewAccessToken, 0)>>
    /\ remote_tracks = tracks
    /\ remote_description = description
    /\ spotify_playlist = [description |-> description, tracks |-> tracks]
    /\ spotify_tracks = tracks
    /\ run = 1
    /\ prev_ok = FALSE
    /\ now = 0
    /\ ticks = 0
    /\ first_results = <<>>
    /\ tracks_to_add = <<>>
    /\ tracks_to_remove = <<>>

InitResolve ==
    /\ AfterGetPlaylist(<<"Radio 6.">>, <<>>)
    /\ pc = "search"
    /\ \E artist \in SeqsUpTo(ResolveAlphabet, MaxArtistLen) :
       \E track \in SeqsUpTo(ResolveAlphabet, MaxTrackLen) :
          /\ page = <<ScrapedTrack(artist, track)>>
          /\ search_results \in [QueriesOf({ScrapedTrack(artist, track)})
                                 -> ResolveResultLists]
    /\ mentions = page
    /\ idx = 1
    /\ scraped_tracks = <<>>

NextResolve ==
    \/ Tick
    \/ SearchVerbatim
    \/ SearchFallback
    \/ ApiCallRaises

SpecResolve == InitResolve /\ [][NextResolve]_vars

-----------------------------------------------------------------------------
(* The description update alone: handler() has read a playlist whose description *)
(* is any sequence over DescriptionElements, found nothing to add or remove and  *)
(* is at its last statement.                                                     *)

DescriptionElements == {LastUpdated, "Some text.", " ", "01-01-2020 00:00:00 (GMT)"}

InitDescription ==
    /\ \E description \in SeqsUpTo(DescriptionElements, MaxDescLen) :
           AfterGetPlaylist(description, <<>>)
    /\ pc = "describe"
    /\ page = <<>>
    /\ search_results = [q \in QueriesOf(Mentions) |-> <<>>]
    /\ mentions = <<>>
    /\ idx = 1
    /\ scraped_tracks = <<>>

NextDescription ==
    \/ Tick
    \/ ChangePlaylistDetails
    \/ ApiCallRaises

SpecDescription == InitDescription /\ [][NextDescription]_vars

-----------------------------------------------------------------------------
(* The client alone: a Spotify object constructed with any access_token and   *)
(* access_token_ts, and its decorated methods called in any order.            *)

PresetToken == "preset_token"

\* Ages, at construction, of the preset timestamps of the token runs.
PresetAges == {0, 3299, 3300, 3301}

ClientMethods == {"search", "get_playlist", "add_to_playlist"}

ClientCalls == Len(SelectSeq(api_log, LAMBDA e : e.op # "token"))

\* Spotify.__init__
InitToken ==
    /\ pc = "client"
    /\ now = 0
    /\ ticks = 0
    /\ access_token \in {None, PresetToken}
    /\ token_ts \in {NoTimestamp} \cup {<<now - a>> : a \in PresetAges}
    /\ api_log = <<>>
    /\ run = 1
    /\ prev_ok = FALSE
    /\ remote_tracks = <<>>
    /\ remote_description = <<>>
    /\ page = <<>>
    /\ search_results = [q \in QueriesOf(Mentions) |-> <<>>]
    /\ spotify_playlist = None
    /\ spotify_tracks = <<>>
    /\ mentions = <<>>
    /\ idx = 0
    /\ first_results = <<>>
    /\ scraped_tracks = <<>>
    /\ tracks_to_add = <<>>
    /\ tracks_to_remove = <<>>

\* A decorated method is called and its request is sent; the request succeeds or
\* raises, and the object lives on either way.
ClientCall ==
    /\ pc = "client"
    /\ ClientCalls < MaxCalls
    /\ \E method \in ClientMethods : \E ok \in BOOLEAN :
           SendAuthenticated(method, <<>>, ok)
    /\ UNCHANGED <<pc, run, prev_ok, now, ticks, remote_tracks, remote_description,
                   page, search_results, spotify_playlist, spotify_tracks, mentions,
                   idx, first_results, scraped_tracks, tracks_to_add,
                   tracks_to_remove>>

\* A decorated method is called and the wrapper's token fetch raises.
ClientCallTokenRaises ==
    /\ pc = "client"
    /\ ClientCalls < MaxCalls
    /\ Len(api_log) < 2 * MaxCalls
    /\ TokenFetchRaises
    /\ UNCHANGED <<pc, run, prev_ok, now, ticks, remote_tracks, remote_description,
                   page, search_results, spotify_playlist, spotify_tracks, mentions,
                   idx, first_results, scraped_tracks, tracks_to_add,
                   tracks_to_remove>>

NextToken ==
    \/ Tick
    \/ ClientCall
    \/ ClientCallTokenRaises

SpecToken == InitToken /\ [][NextToken]_vars

-----------------------------------------------------------------------------
(* Vocabulary of the properties *)

\* handler() has computed the two lists and not raised since.
PostReconcile == {"add", "remove", "describe", "done"}

SameId(a, b) == a.id = b.id

SameNameAndArtists(a, b) == a.name = b.name /\ a.artists = b.artists

\* The current tracks that no existing track matches under Match, and the
\* existing tracks that no current track matches.
Unmatched(tracks, others, Match(_, _)) ==
    {t \in Range(tracks) : \A o \in Range(others) : ~ Match(t, o)}

IdOrNameAndArtists(a, b) == SameId(a, b) \/ SameNameAndArtists(a, b)

HasDuplicates(s) == \E i, j \in 1..Len(s) : i # j /\ s[i] = s[j]

Requests(op) == SelectSeq(api_log, LAMBDA e : e.op = op)

Last(s) == s[Len(s)]

-----------------------------------------------------------------------------
(* C1 *)

\* C1, as claimed: after the reconciliation, tracks_to_add holds exactly the
\* resolved tracks whose id is the id of no track of the playlist, and
\* tracks_to_remove exactly the playlist's tracks whose id is the id of no
\* resolved track; equal ids are the only way two tracks are the same.
C1_ReconcileById ==
    pc \in PostReconcile =>
        /\ Range(tracks_to_add) = Unmatched(scraped_tracks, spotify_tracks, SameId)
        /\ Range(tracks_to_remove) = Unmatched(spotify_tracks, scraped_tracks, SameId)

\* C1, amended: after the reconciliation, tracks_to_add holds exactly the resolved
\* tracks that no track of the playlist matches, and tracks_to_remove exactly the
\* playlist's tracks that no resolved track matches, where two tracks match when
\* their ids are equal or when their names and their artist lists are both equal.
C1_ReconcileByIdOrNameAndArtists ==
    pc \in PostReconcile =>
        /\ Range(tracks_to_add)
               = Unmatched(scraped_tracks, spotify_tracks, IdOrNameAndArtists)
        /\ Range(tracks_to_remove)
               = Unmatched(spotify_tracks, scraped_tracks, IdOrNameAndArtists)

\* C1, witness: a resolved track whose id no playlist track has, and whose name
\* and artists one has, has been reconciled and is not added, beside a track that
\* is added.
C1_Witness ==
    /\ pc \in PostReconcile
    /\ \E c \in Range(scraped_tracks) :
           /\ \A e \in Range(spotify_tracks) : ~ SameId(c, e)
           /\ \E e \in Range(spotify_tracks) : SameNameAndArtists(c, e)
           /\ c \notin Range(tracks_to_add)
    /\ tracks_to_add # <<>>

-----------------------------------------------------------------------------
(* C2 *)

-----------------------------------------------------------------------------
(* C3 *)

\* C3, as claimed: the resolved tracks handed to the reconciler hold no track
\* twice, so neither does tracks_to_add nor the URI list of an add-tracks request.
C3_CurrentTracksDeduplicated ==
    pc \in {"reconcile"} \cup PostReconcile =>
        /\ ~ HasDuplicates(scraped_tracks)
        /\ ~ HasDuplicates(tracks_to_add)
        /\ \A i \in 1..Len(Requests("add_to_playlist")) :
               ~ HasDuplicates(Requests("add_to_playlist")[i].arg)

-----------------------------------------------------------------------------
(* C7 *)

\* C7: in a run that follows a run which reached its last statement, with the
\* same page and the same search results, both lists are empty after the
\* reconciliation and no add-tracks or remove-tracks request is sent.
C7_SecondRunIsEmpty ==
    (run > 1 /\ prev_ok) =>
        /\ pc \in PostReconcile => (tracks_to_add = <<>> /\ tracks_to_remove = <<>>)
        /\ pc \notin {"add", "remove"}
        /\ Requests("add_to_playlist") = <<>>
        /\ Requests("remove_from_playlist") = <<>>

\* C7, witness: the second run has finished after a first run that added tracks
\* (the playlist is longer than it can be before the first run).
C7_Witness ==
    /\ run = 2
    /\ prev_ok
    /\ pc = "done"
    /\ scraped_tracks # <<>>
    /\ Len(remote_tracks) > MaxPlaylist

-----------------------------------------------------------------------------
(* C9 *)

\* C9: a request that failed is the last request of its run, and the run has
\* been aborted: the call is not sent again and no other call follows it.
C9_FailureAborts ==
    \A i \in 1..Len(api_log) :
        ~ api_log[i].ok => (i = Len(api_log) /\ pc = "aborted")

\* C9, witness: an add-tracks request failed in a run that had tracks to remove.
C9_Witness ==
    /\ pc = "aborted"
    /\ api_log # <<>>
    /\ Last(api_log).op = "add_to_playlist"
    /\ ~ Last(api_log).ok
    /\ tracks_to_remove # <<>>

-----------------------------------------------------------------------------
(* C10 *)

\* The results get_track_from_spotify ends with for a mention, read off the
\* catalog: those of the verbatim search or, when it is empty and the mention
\* has an odd character, those of the search without odd characters.
FinalResults(m) ==
    LET verbatim == search_results[SearchQuery(m.artist, m.track)]
    IN  IF verbatim # <<>> THEN verbatim
        ELSE IF has_odd_chars(m.artist) \/ has_odd_chars(m.track)
        THEN search_results[SearchQuery(remove_odd_chars(m.artist),
                                        remove_odd_chars(m.track))]
        ELSE <<>>

\* The mentions get_scraped_tracks_from_spotify is done with.
Processed == IF idx = 0 THEN {} ELSE 1..(idx - 1)

\* C10: the resolved tracks are one per processed mention that has a match, so a
\* mention without a match adds nothing; the run is aborted only by a failed
\* request or a failed scrape, never by a miss; and the reconciliation is reached
\* only with every mention processed.
C10_MissIsSkipped ==
    /\ Len(scraped_tracks)
           = Cardinality({i \in Processed : FinalResults(mentions[i]) # <<>>})
    /\ pc = "aborted" => (idx = 0 \/ ~ Last(api_log).ok)
    /\ pc \in {"reconcile"} \cup PostReconcile => idx = Len(mentions) + 1

\* C10, witness: a run has finished whose page held a mention without a match,
\* processed before a mention with one.
C10_Witness ==
    /\ pc = "done"
    /\ \E i, j \in 1..Len(mentions) :
           /\ i < j
           /\ FinalResults(mentions[i]) = <<>>
           /\ FinalResults(mentions[j]) # <<>>
    /\ scraped_tracks # <<>>

-----------------------------------------------------------------------------
(* C4 *)

\* ASCII letters, digits and the underscore.
IsAsciiWordChar(c) == Code[c] \in (48..57) \cup (65..90) \cup (97..122) \cup {95}

\* A special character as C4 defines it: any character other than an ASCII
\* letter, digit, underscore, space, "+", "-" or ".".
IsSpecialChar(c) == ~ (IsAsciiWordChar(c) \/ c \in {" ", "+", "-", "."})

HasSpecialChar(string) == \E i \in 1..Len(string) : IsSpecialChar(string[i])

WithoutSpecialChars(string) == SelectSeq(string, LAMBDA c : ~ IsSpecialChar(c))

\* C4, as claimed: once the verbatim search of a mention has returned, the
\* resolver takes the fallback search if and only if the verbatim search found
\* nothing and the artist or the track name holds a special character, and the
\* fallback query is the artist and the name without their special characters.
C4_FallbackIffSpecialChar ==
    LET searches == Requests("search")
        m == mentions[1]
    IN  (Len(searches) >= 1 /\ searches[1].ok /\ pc # "aborted") =>
            /\ (pc = "fallback" \/ Len(searches) >= 2)
                   <=> /\ search_results[SearchQuery(m.artist, m.track)] = <<>>
                       /\ (HasSpecialChar(m.artist) \/ HasSpecialChar(m.track))
            /\ Len(searches) >= 2 =>
                   searches[2].arg = SearchQuery(WithoutSpecialChars(m.artist),
                                                 WithoutSpecialChars(m.track))

-----------------------------------------------------------------------------
(* C5 *)

\* a < b in the lexicographic order of strings
RECURSIVE LexLess(_, _)
LexLess(a, b) ==
    IF b = <<>> THEN FALSE
    ELSE IF a = <<>> THEN TRUE
    ELSE IF Code[Head(a)] # Code[Head(b)] THEN Code[Head(a)] < Code[Head(b)]
    ELSE LexLess(Tail(a), Tail(b))

\* t comes before o in the order C5 claims: greater popularity, then greater id.
Precedes(t, o) ==
    \/ t.popularity > o.popularity
    \/ t.popularity = o.popularity /\ (t.id = o.id \/ LexLess(o.id, t.id))

\* C5, as claimed: a mention whose search returned candidates resolves to the
\* candidate of the greatest popularity and, among those, of the greatest id,
\* whatever the order the catalog returned them in.
C5_PicksGreatestPopularityThenId ==
    (pc = "reconcile" /\ FinalResults(mentions[1]) # <<>>) =>
        /\ Len(scraped_tracks) = 1
        /\ \A o \in Range(FinalResults(mentions[1])) : Precedes(scraped_tracks[1], o)

-----------------------------------------------------------------------------
(* C6 *)

HasLastUpdated(description) ==
    \E i \in 1..Len(description) : description[i] = LastUpdated

\* The description up to its last "Last updated: ".
BeforeLastMarker(description) ==
    LET k == CHOOSE i \in 1..Len(description) :
                 /\ description[i] = LastUpdated
                 /\ \A j \in (i + 1)..Len(description) : description[j] # LastUpdated
    IN  SubSeq(description, 1, k - 1)

\* C6, as claimed: the description written is the description read without its
\* last "Last updated: " and what follows it, then the marker and the new
\* timestamp; a description read without the marker is kept whole, and the
\* marker and the new timestamp come after it.
C6_DescriptionKept ==
    pc = "done" =>
        LET description == spotify_playlist.description
            kept == IF HasLastUpdated(description)
                    THEN BeforeLastMarker(description)
                    ELSE description
        IN  remote_description = kept \o <<" ", LastUpdated, Timestamp(now)>>

-----------------------------------------------------------------------------
(* C8 *)

\* C8, as claimed: every authenticated request is sent with a token that exists
\* and whose age, when the wrapper checked it, was at most 3300 seconds, also by
\* a client constructed with a preset token timestamp.
C8_TokenExistsAndIsFresh ==
    \A i \in 1..Len(api_log) :
        api_log[i].op # "token" =>
            /\ api_log[i].token # None
            /\ api_log[i].age <= access_token_timeout - RefreshMargin

-----------------------------------------------------------------------------
(* C11 *)

BatchOps == {"add_to_playlist", "remove_from_playlist"}

\* C11: handler() is at its add-tracks call only with a non-empty tracks_to_add
\* and at its remove-tracks call only with a non-empty tracks_to_remove, and
\* every add-tracks and remove-tracks request sent carries at least one URI.
C11_NoEmptyBatch ==
    /\ pc = "add" => tracks_to_add # <<>>
    /\ pc = "remove" => tracks_to_remove # <<>>
    /\ \A i \in 1..Len(api_log) :
           api_log[i].op \in BatchOps => Len(api_log[i].arg) >= 1
    /\ Requests("add_to_playlist") # <<>> => tracks_to_add # <<>>
    /\ Requests("remove_from_playlist") # <<>> => tracks_to_remove # <<>>

\* C11, witness: a run has finished that had nothing to add and skipped the
\* add-tracks call, and had tracks to remove and sent them.
C11_Witness ==
    /\ pc = "done"
    /\ tracks_to_add = <<>>
    /\ Requests("add_to_playlist") = <<>>
    /\ Len(Requests("remove_from_playlist")) = 1
    /\ scraped_tracks # <<>>

-----------------------------------------------------------------------------
(* C12 *)

\* The requests of the run to the Web API, without the token fetches.
CatalogRequests == SelectSeq(api_log, LAMBDA e : e.op # "token")

\* The place of a request in the order C12 claims.
OrderOf(op) ==
    CASE op = "get_playlist" -> 1
      [] op = "search" -> 2
      [] op = "add_to_playlist" -> 3
      [] op = "remove_from_playlist" -> 4
      [] op = "change_playlist_details" -> 5

\* C12: the requests of a run come in the order: the playlist read, first and
\* once; the searches; the additions, at most once; the removals, at most once;
\* the description update, last.  When the description update is sent, every
\* request before it has succeeded, the additions have been sent if there were
\* any and so have the removals, and the description it carries is the one of
\* the snapshot up to its last "Last updated: ", then the marker and the
\* timestamp of the update.
C12_CallOrder ==
    LET reqs == CatalogRequests
    IN  /\ reqs # <<>> => reqs[1].op = "get_playlist"
        /\ \A i, j \in 1..Len(reqs) :
               i < j =>
                   /\ OrderOf(reqs[i].op) <= OrderOf(reqs[j].op)
                   /\ reqs[i].op # "search" => OrderOf(reqs[i].op) < OrderOf(reqs[j].op)
        /\ \A i \in 1..Len(reqs) :
               reqs[i].op = "change_playlist_details" =>
                   /\ \A j \in 1..(i - 1) : reqs[j].ok
                   /\ tracks_to_add # <<>> =>
                          \E j \in 1..(i - 1) :
                              /\ reqs[j].op = "add_to_playlist"
                              /\ reqs[j].arg = UrisOf(tracks_to_add)
                   /\ tracks_to_remove # <<>> =>
                          \E j \in 1..(i - 1) :
                              /\ reqs[j].op = "remove_from_playlist"
                              /\ reqs[j].arg = UrisOf(tracks_to_remove)
                   /\ HasLastUpdated(spotify_playlist.description) =>
                          reqs[i].arg = BeforeLastMarker(spotify_playlist.description)
                                        \o <<" ", LastUpdated, Timestamp(now)>>

\* C12, witness: a run has finished after reading the playlist, searching,
\* adding, removing and updating the description, the clock having advanced
\* since the playlist was read.
C12_Witness ==
    /\ pc = "done"
    /\ Requests("search") # <<>>
    /\ Requests("add_to_playlist") # <<>>
    /\ Requests("remove_from_playlist") # <<>>
    /\ Last(api_log).op = "change_playlist_details"
    /\ Last(api_log).ok
    /\ now > 0

-----------------------------------------------------------------------------
(* C13 *)

\* The additions and the removals of the run, if any, have been applied and no
\* call has failed.
Applied == pc \in {"describe", "done"}

\* C13: once the additions and the removals of a run have been applied, some
\* track of the playlist matches every resolved track and some resolved track
\* matches every track of the playlist, where two tracks match when their ids
\* are equal or their names and artists are; no track to add matches a track to
\* remove, and no track of the snapshot that is kept has the URI of a removed one.
C13_Converged ==
    Applied =>
        /\ \A c \in Range(scraped_tracks) :
               \E e \in Range(remote_tracks) : IdOrNameAndArtists(c, e)
        /\ \A e \in Range(remote_tracks) :
               \E c \in Range(scraped_tracks) : IdOrNameAndArtists(e, c)
        /\ \A a \in Range(tracks_to_add) : \A r \in Range(tracks_to_remove) :
               ~ IdOrNameAndArtists(a, r)
        /\ \A e \in Range(spotify_tracks) \ Range(tracks_to_remove) :
               \A r \in Range(tracks_to_remove) : e.uri # r.uri

\* C13, witness: a run has ended after adding a track, and the playlist keeps a
\* track that only the name and the artists of a resolved track match.
C13_Witness ==
    /\ pc = "done"
    /\ Requests("add_to_playlist") # <<>>
    /\ \E e \in Range(remote_tracks) :
           /\ \A c \in Range(scraped_tracks) : ~ SameId(e, c)
           /\ \E c \in Range(scraped_tracks) : SameNameAndArtists(e, c)

=============================================================================
